---------------------------- MODULE Spec2Model ----------------------------
(***************************************************************************)
(* pfetch.py: fetch remote directories through rsync with a pool of worker *)
(* threads, a dispatcher thread, a display thread and the main thread.     *)
(*                                                                         *)
(* Every thread is modelled statement by statement: a thread's program     *)
(* counter names the source line it executes next (L174 is line 174 of     *)
(* pfetch.py), and one action executes one statement that reads or writes  *)
(* the shared lists jobs_pool and workers_pool or the module-level flags.  *)
(* Statements that touch only a thread's own locals (i += 1, the appends   *)
(* to the worker's own output list, time.sleep) are folded into the        *)
(* shared statement before them.  The test of a thread's while loop is     *)
(* folded into the first statement of the loop body (W172, D159): the flag *)
(* it reads is written only by the main thread, once, and the main thread  *)
(* then waits in join() for the thread that reads it, so every run with    *)
(* the write between the two reads has the same effect as the run with the *)
(* write after them.                                                       *)
(***************************************************************************)
EXTENDS Integers, FiniteSets, Sequences, TLC

\* ------------------------------------------------------------- bounds
\* Largest number of manifest lines (len(fetch_list)) of a run.
MaxJobs == 2
\* Largest number of worker threads (sys.argv[5]) of a run.
MaxThreads == 2
\* Largest retry budget of a run (the source sets retry = 100).
MaxRetry == 1
MaxOutput == 6
MaxText == 4

\* Line 149: display() shows worker['output'][-5:].
ShownLines == 5

\* ---------------------------------------------------------- constants
\* Python's None in job['worker'] and job['return'].
None == -1
\* Marks a failure of subprocess.check_output that is not a
\* CalledProcessError (OSError: program not found, permission denied).
OSError == -2

\* Exit codes rsync is taken to return: success, the last fatal code and
\* the first retryable code.
ExitCodes == {0, 19, 20}

\* Line 57: the extensions of the entries fetched as single files.
COMMON_EXTS == {".fits", ".db", ".h5", ".root", ".zip", ".gz", ".tar",
                ".bz2", ".xz"}

VARIABLES
    stub,           \* how the transfer command behaves in this run
    probe,          \* whether the run keeps the history counters
    audit,          \* whether the run keeps the exit codes and log files
    manifest,       \* the manifest file's content, a sequence of characters
    lines,          \* [line[:-1] for line in f], each a sequence of characters
    fetch_list,     \* the manifest's entries, each a sequence of path
                    \* components [name, ext] below the source root
    disk,           \* rsync_dest and what is below it: path -> "dir"/"file",
                    \* the empty path being rsync_dest itself
    njobs,          \* module global njobs = len(jobs_pool)
    nthreads,       \* module global nthreads
    retry,          \* module global retry
    jobs_pool,      \* [Jobs -> [command, status, return, worker, retry]]
    workers_pool,   \* [Workers -> [status]]
    dispatch_on,    \* module-level flag read by dispatch()
    display_on,     \* module-level flag read by display()
    pc_rsync,       \* position of each worker thread in rsync()
    i_rsync,        \* rsync()'s local i, modulo njobs
    e_returncode,   \* e.returncode of the CalledProcessError being handled
    output,         \* len(worker['output']) of each worker
    pc_dispatch,    \* position of the dispatcher thread in dispatch()
    i_dispatch,     \* dispatch()'s local i, modulo njobs
    k_dispatch,     \* cursor of "for worker in workers_pool"
    pc_display,     \* position of the display thread
    pc_main,        \* position of the main thread
    i_main,         \* the main thread's i (wait loop, then dismiss loop)
    finished,       \* the set of indices where finished[] is 1
    running,        \* <<worker, job>>: transfer commands in flight
    invoked,        \* history: times each job's command was started
    recycled,       \* history: broken -> pending changes of each job
    exits,          \* history: each job's attempts by kind of exit code
    logs            \* the log files written: name -> times written

vars == <<stub, probe, audit, manifest, lines, fetch_list, disk, njobs, nthreads, retry, jobs_pool, workers_pool,
          dispatch_on, display_on, pc_rsync, i_rsync, e_returncode,
          output, pc_dispatch, i_dispatch, k_dispatch, pc_display, pc_main, i_main,
          finished, running, invoked, recycled, exits, logs>>

\* The parameters of a run: fixed once the threads are started.
params == <<stub, probe, audit, manifest, lines, fetch_list, disk, njobs,
            nthreads, retry>>
shared == <<jobs_pool, workers_pool, dispatch_on, display_on>>
dispatch_vars == <<pc_dispatch, i_dispatch, k_dispatch>>
rsync_vars == <<pc_rsync, i_rsync, e_returncode, output>>
main_vars == <<pc_main, i_main, finished>>
history == <<running, invoked, recycled, exits, logs>>

Jobs == 0 .. (njobs - 1)
Workers == 0 .. (nthreads - 1)

\* ------------------------------------------------------ construction
\* Lines 103-109: every worker starts idle.
NewWorker == [status |-> "idle"]

\* No attempt of a job has ended yet: no exit code below 20 (fatal), none
\* of 20 or more (transient).
NoExits == [fatal |-> 0, transient |-> 0]

\* A path component with its extension, as path.splitext splits it.
Component(n, e) == [name |-> n, ext |-> e]

\* path.split(entry)[0]: the entry without its last component.
Parent(entry) == SubSeq(entry, 1, Len(entry) - 1)

\* str.lower() on the extensions of the model.
Lower(e) == IF e = ".FITS" THEN ".fits" ELSE e

\* Line 89 without lower(): the extension is compared as it is written.
IsFileEntry_exact(entry) ==
    entry # <<>> /\ entry[Len(entry)].ext \in COMMON_EXTS

\* Line 89: path.splitext(entry)[-1].lower() in COMMON_EXTS.
IsFileEntry(entry) ==
    entry # <<>> /\ Lower(entry[Len(entry)].ext) \in COMMON_EXTS

\* Lines 90 and 93: the directory created for an entry, relative to
\* rsync_dest: the entry's parent for a file, the entry itself otherwise.
DestDir(entry) == IF IsFileEntry(entry) THEN Parent(entry) ELSE entry

\* The empty last component that path.join(..., "") adds to a path: the
\* path ends with a slash.
Slash == Component("", "")

\* Lines 91 and 94: job['command'], the argument list of the transfer
\* command: the source and the destination are the entry joined to
\* rsync_src and to rsync_dest, with a trailing slash unless the entry is
\* a file.
Command(entry) ==
    LET p == IF IsFileEntry(entry) THEN entry ELSE entry \o <<Slash>> IN
      <<"rsync", "rsync_opts", <<"rsync_src", p>>, <<"rsync_dest", p>>>>

\* Lines 87-100: the job of an entry starts pending, unassigned, with the
\* whole retry budget.
NewJob(entry) ==
    [command |-> Command(entry), status |-> "pending", return |-> None,
     worker |-> None, retry |-> retry]

\* The directories on the disk, and a path with all the directories
\* above it.
Dirs == {p \in DOMAIN disk : disk[p] = "dir"}

Prefixes(p) == {SubSeq(p, 1, k) : k \in 0 .. Len(p)}

\* The disk after the directories in ps have been created.
WithDirs(d, ps) ==
    [p \in DOMAIN d \cup ps |-> IF p \in DOMAIN d THEN d[p] ELSE "dir"]

\* os.makedirs(p) at line 62, as the set of its possible results: EEXIST
\* if p exists, ENOTDIR if a file is in the way, else all the missing
\* directories are created, or the creation of one of them is refused
\* (EACCES) after those above it have been created.
makedirs(p) ==
    IF p \in DOMAIN disk
      THEN {[errno |-> "EEXIST", disk |-> disk]}
      ELSE IF \E q \in Prefixes(p) : q \in DOMAIN disk /\ disk[q] = "file"
             THEN {[errno |-> "ENOTDIR", disk |-> disk]}
             ELSE {[errno |-> "OK", disk |-> WithDirs(disk, Prefixes(p))]}
                  \cup {[errno |-> "EACCES",
                         disk |-> WithDirs(disk,
                                    {q \in Prefixes(p) : Len(q) < k})] :
                        k \in {n \in 1 .. Len(p) :
                                 SubSeq(p, 1, n) \notin DOMAIN disk}}

\* mkdir_p(p) without the test of line 65: every OSError is raised again.
mkdir_p_strict(p, r) == r.errno # "OK"

\* Lines 64-68: mkdir_p(p) lets the OSError of makedirs pass when it is
\* EEXIST and p is a directory, and raises it again otherwise.
mkdir_p_raises(p, r) ==
    r.errno # "OK" /\ ~(r.errno = "EEXIST" /\ p \in Dirs)

\* The manifest and the disk of a run of n jobs whose threads have been
\* started: n entries naming one directory, which has been created.
SomeEntry == <<Component("a", "")>>

\* The state when the threads have been started (lines 227-235), for a
\* run of n jobs and t workers with retry budget r, transfer command s.
InitRun(s, h, a, n, t, r) ==
    /\ stub = s
    /\ probe = h
    /\ audit = a
    /\ manifest = <<>>
    /\ lines = <<>>
    /\ fetch_list = [k \in 1 .. n |-> SomeEntry]
    /\ disk = (<<>> :> "dir") @@ (SomeEntry :> "dir")
    /\ njobs = n
    /\ nthreads = t
    /\ retry = r
    /\ jobs_pool = [j \in Jobs |-> NewJob(SomeEntry)]
    /\ workers_pool = [w \in Workers |-> NewWorker]
    /\ dispatch_on = TRUE
    /\ display_on = TRUE
    /\ pc_rsync = [w \in Workers |-> "L172"]
    /\ i_rsync = [w \in Workers |-> 0]
    /\ e_returncode = [w \in Workers |-> None]
    /\ output = [w \in Workers |-> 0]
    /\ pc_dispatch = "L159"
    /\ i_dispatch = 0
    /\ k_dispatch = 0
    /\ pc_display = "L118"
    /\ pc_main = "L238"
    /\ i_main = 0
    /\ finished = {}
    /\ running = {}
    /\ invoked = [j \in Jobs |-> 0]
    /\ recycled = [j \in Jobs |-> 0]
    /\ exits = [j \in Jobs |-> NoExits]
    /\ logs = <<>>

\* The same state, for a run that keeps no exit codes and no log files.
InitWith(s, h, n, t, r) == InitRun(s, h, FALSE, n, t, r)

\* ------------------------------------------------- the transfer command
\* What one invocation of job j's command may produce, by the stub in use:
\*   "any"   any exit code, or the command cannot be invoked;
\*   "zero"  always exit code 0;
\*   "retry" always an exit code >= 20;
\*   "codes" any exit code;
\*   "block" the command of the last job never returns, the others exit
\*           with any code;
\*   "mixed" the first invocation of job j exits MixedCodes[j + 1], every
\*           later one exits 0.
MixedCodes == <<0, 13, 23, 0>>

Outcomes(j) ==
    CASE stub = "zero" -> {0}
      [] stub = "retry" -> {c \in ExitCodes : c >= 20}
      [] stub = "codes" -> ExitCodes
      [] stub = "block" -> IF j = njobs - 1 THEN {} ELSE ExitCodes
      [] stub = "mixed" -> {IF invoked[j] <= 1 THEN MixedCodes[j + 1] ELSE 0}
      [] OTHER -> ExitCodes \cup {OSError}

\* ----------------------------------------------------------- helpers
SetStatus(j, s) ==
    jobs_pool' = [jobs_pool EXCEPT ![j].status = s]

SetWorkerStatus(w, s) ==
    workers_pool' = [workers_pool EXCEPT ![w].status = s]

\* The names of the per-job log files: 'fetch_completed.job_%d.log' (line
\* 186), 'fetch_failed.job_%d.log' (line 194) and
\* 'fetch_broken.job_%d.try_%d.log' (line 199).
CompletedLog(j) == [kind |-> "fetch_completed", job |-> j, try |-> None]

FailedLog(j) == [kind |-> "fetch_failed", job |-> j, try |-> None]

BrokenLog(j, n) == [kind |-> "fetch_broken", job |-> j, try |-> n]

\* open(name, 'w') and f.write(...): the file is created, or written over.
\* The files are recorded in the runs that keep the history.
WriteLog(name) ==
    logs' = IF ~audit THEN logs
            ELSE IF name \in DOMAIN logs
                   THEN [logs EXCEPT ![name] = @ + 1]
                   ELSE logs @@ (name :> 1)

\* worker['output'].append(...), or += with a list of n lines: the list
\* grows by n lines. The lines are counted in the runs that keep the log
\* files, up to MaxOutput.
Say(w, n) ==
    output' = IF ~audit THEN output
              ELSE [output EXCEPT
                      ![w] = IF @ + n > MaxOutput THEN MaxOutput ELSE @ + n]

\* A worker moves to another line of rsync().
Goto(w, l) == pc_rsync' = [pc_rsync EXCEPT ![w] = l]

\* Lines 222-223, 172: sleep, i += 1, back to the loop test.
NextJob(w) ==
    /\ pc_rsync' = [pc_rsync EXCEPT ![w] = "L172"]
    /\ i_rsync' = [i_rsync EXCEPT ![w] = (@ + 1) % njobs]

\* -------------------------------------------------- rsync(worker_id)
\* The job a worker's scan is at: jobs_pool[i % njobs] (line 173).
JobOf(w) == i_rsync[w]

rsync_frame == <<params, dispatch_on, display_on, dispatch_vars, pc_display,
                 main_vars>>

\* Lines 172-174: while worker['status'] != 'dismissed', and in the loop
\* if job['worker'] == worker_id; otherwise on to the next job.
W172(w) ==
    /\ pc_rsync[w] = "L172"
    /\ UNCHANGED output
    /\ IF workers_pool[w].status # "dismissed"
         THEN IF njobs = 0
                THEN Goto(w, "raised_L173") /\ UNCHANGED i_rsync
                ELSE IF jobs_pool[JobOf(w)].worker = w
                       THEN Goto(w, "L175") /\ UNCHANGED i_rsync
                       ELSE NextJob(w)
         ELSE Goto(w, "L224") /\ UNCHANGED i_rsync
    /\ UNCHANGED <<jobs_pool, workers_pool, e_returncode, rsync_frame,
                   history>>

\* Line 175: if job['status'] == 'pending'.
W175(w) ==
    /\ pc_rsync[w] = "L175"
    /\ UNCHANGED output
    /\ IF jobs_pool[JobOf(w)].status = "pending"
         THEN Goto(w, "L177")
         ELSE Goto(w, "L202")
    /\ UNCHANGED <<jobs_pool, workers_pool, i_rsync, e_returncode,
                   rsync_frame, history>>

\* Lines 176-177: the 'pending' message, worker['status'] = 'working'.
W177(w) ==
    /\ pc_rsync[w] = "L177"
    /\ Say(w, 1)
    /\ SetWorkerStatus(w, "working")
    /\ Goto(w, "L179")
    /\ UNCHANGED <<jobs_pool, i_rsync, e_returncode, rsync_frame, history>>

\* Lines 179-180: job['status'] = 'syncing', and the message.
W179(w) ==
    /\ pc_rsync[w] = "L179"
    /\ Say(w, 1)
    /\ SetStatus(JobOf(w), "syncing")
    /\ Goto(w, "L181")
    /\ UNCHANGED <<workers_pool, i_rsync, e_returncode, rsync_frame,
                   history>>

\* W181_call with the command started and not waited for (Popen in place
\* of check_output): the worker goes on as if the command had succeeded.
W181_call_nowait(w) ==
    /\ pc_rsync[w] = "L181"
    /\ UNCHANGED output
    /\ running' = running \cup {<<w, JobOf(w)>>}
    /\ invoked' = IF probe THEN [invoked EXCEPT ![JobOf(w)] = @ + 1]
                           ELSE invoked
    /\ Goto(w, "L183")
    /\ UNCHANGED <<jobs_pool, workers_pool, i_rsync, e_returncode,
                   rsync_frame, recycled, exits, logs>>

\* Line 181: subprocess.check_output starts the job's command; the worker
\* thread blocks in the call until the command ends.
W181_call(w) ==
    /\ pc_rsync[w] = "L181"
    /\ UNCHANGED output
    /\ running' = running \cup {<<w, JobOf(w)>>}
    /\ invoked' = IF probe THEN [invoked EXCEPT ![JobOf(w)] = @ + 1]
                           ELSE invoked
    /\ Goto(w, "L181_wait")
    /\ UNCHANGED <<jobs_pool, workers_pool, i_rsync, e_returncode,
                   rsync_frame, recycled, exits, logs>>

\* Line 181, the call ends: it returns the output (exit code 0), raises
\* CalledProcessError (any other exit code; handled at line 188), or
\* raises something else, which no except clause of rsync() catches: the
\* exception leaves rsync() and the worker thread ends.
W181_return(w) ==
    /\ pc_rsync[w] = "L181_wait"
    /\ UNCHANGED output
    /\ running' = running \ {<<w, JobOf(w)>>}
    /\ \E c \in Outcomes(JobOf(w)) :
         /\ CASE c = 0 ->
                  Goto(w, "L183") /\ UNCHANGED e_returncode
             [] c = OSError ->
                  Goto(w, "raised_L181") /\ UNCHANGED e_returncode
             [] OTHER ->
                  /\ Goto(w, "L190")
                  /\ e_returncode' = [e_returncode EXCEPT ![w] = c]
         /\ exits' = IF audit /\ c > 0
                       THEN IF c < 20
                              THEN [exits EXCEPT ![JobOf(w)].fatal = @ + 1]
                              ELSE [exits EXCEPT
                                      ![JobOf(w)].transient = @ + 1]
                       ELSE exits
    /\ UNCHANGED <<jobs_pool, workers_pool, i_rsync, rsync_frame,
                   invoked, recycled, logs>>

\* Lines 182-183: the command's output is added to worker['output'] (at
\* least one line: ''.split('\n') is ['']), job['status'] = 'completed'.
W183(w) ==
    /\ pc_rsync[w] = "L183"
    /\ Say(w, 1)
    /\ SetStatus(JobOf(w), "completed")
    /\ Goto(w, "L184")
    /\ UNCHANGED <<workers_pool, i_rsync, e_returncode, rsync_frame,
                   history>>

\* Lines 184-187: job['return'] = 0, the 'completed' message, then the output is written to the
\* job's fetch_completed log.
W184(w) ==
    /\ pc_rsync[w] = "L184"
    /\ Say(w, 1)
    /\ jobs_pool' = [jobs_pool EXCEPT ![JobOf(w)].return = 0]
    /\ WriteLog(CompletedLog(JobOf(w)))
    /\ Goto(w, "L201")
    /\ UNCHANGED <<workers_pool, i_rsync, e_returncode, rsync_frame,
                   running, invoked, recycled, exits>>

\* Lines 189-190: e.output is added to worker['output'] (at least one
\* line), job['return'] = e.returncode.
W190(w) ==
    /\ pc_rsync[w] = "L190"
    /\ Say(w, 1)
    /\ jobs_pool' = [jobs_pool EXCEPT ![JobOf(w)].return = e_returncode[w]]
    /\ Goto(w, "L191")
    /\ UNCHANGED <<workers_pool, i_rsync, e_returncode, rsync_frame,
                   history>>

\* Line 191: if job['return'] < 20.
W191(w) ==
    /\ pc_rsync[w] = "L191"
    /\ UNCHANGED output
    /\ IF jobs_pool[JobOf(w)].return < 20
         THEN Goto(w, "L193")
         ELSE Goto(w, "L198")
    /\ UNCHANGED <<jobs_pool, workers_pool, i_rsync, e_returncode,
                   rsync_frame, history>>

\* Lines 192-195: the message, job['status'] = 'failed', then the output is written to
\* the job's fetch_failed log.
W193(w) ==
    /\ pc_rsync[w] = "L193"
    /\ Say(w, 1)
    /\ SetStatus(JobOf(w), "failed")
    /\ WriteLog(FailedLog(JobOf(w)))
    /\ Goto(w, "L201")
    /\ UNCHANGED <<workers_pool, i_rsync, e_returncode, rsync_frame,
                   running, invoked, recycled, exits>>

\* Lines 197-198: the message, job['status'] = 'broken'.
W198(w) ==
    /\ pc_rsync[w] = "L198"
    /\ Say(w, 1)
    /\ SetStatus(JobOf(w), "broken")
    /\ Goto(w, "L199")
    /\ UNCHANGED <<workers_pool, i_rsync, e_returncode, rsync_frame,
                   history>>

\* The attempt number in the name of a fetch_broken log (line 199):
\* retry - job['retry'], read when the file is opened.
TryNumber(j) == retry - jobs_pool[j].retry

\* Lines 199-200: the output is written to the job's fetch_broken log of
\* this try.
W199(w) ==
    /\ pc_rsync[w] = "L199"
    /\ UNCHANGED output
    /\ WriteLog(BrokenLog(JobOf(w), TryNumber(JobOf(w))))
    /\ Goto(w, "L201")
    /\ UNCHANGED <<jobs_pool, workers_pool, i_rsync, e_returncode,
                   rsync_frame, running, invoked, recycled, exits>>

\* Line 201: worker['status'] = 'idle' (the except clause, if any, has
\* ended), then on to the next job.
W201(w) ==
    /\ pc_rsync[w] = "L201"
    /\ UNCHANGED output
    /\ SetWorkerStatus(w, "idle")
    /\ e_returncode' = [e_returncode EXCEPT ![w] = None]
    /\ NextJob(w)
    /\ UNCHANGED <<jobs_pool, rsync_frame, history>>

\* W202 with a conflict branch that puts the job back to 'pending'.
W202_requeues(w) ==
    /\ pc_rsync[w] = "L202"
    /\ IF jobs_pool[JobOf(w)].status = "syncing"
         THEN SetStatus(JobOf(w), "pending") /\ NextJob(w) /\ Say(w, 1)
         ELSE Goto(w, "L205") /\ UNCHANGED <<i_rsync, jobs_pool, output>>
    /\ UNCHANGED <<workers_pool, e_returncode, rsync_frame, history>>

\* Lines 202-203: elif job['status'] == 'syncing': only a message.
W202(w) ==
    /\ pc_rsync[w] = "L202"
    /\ IF jobs_pool[JobOf(w)].status = "syncing"
         THEN NextJob(w) /\ Say(w, 1)
         ELSE Goto(w, "L205") /\ UNCHANGED <<i_rsync, output>>
    /\ UNCHANGED <<jobs_pool, workers_pool, e_returncode, rsync_frame,
                   history>>

\* Line 205: elif job['status'] == 'broken'.
W205(w) ==
    /\ pc_rsync[w] = "L205"
    /\ UNCHANGED output
    /\ IF jobs_pool[JobOf(w)].status = "broken"
         THEN Goto(w, "L208")
         ELSE Goto(w, "L216")
    /\ UNCHANGED <<jobs_pool, workers_pool, i_rsync, e_returncode,
                   rsync_frame, history>>

\* Lines 206-208: two messages, worker['status'] = 'working'.
W208(w) ==
    /\ pc_rsync[w] = "L208"
    /\ Say(w, 2)
    /\ SetWorkerStatus(w, "working")
    /\ Goto(w, "L209")
    /\ UNCHANGED <<jobs_pool, i_rsync, e_returncode, rsync_frame, history>>

\* Line 209: if job['retry'] > 0.
W209(w) ==
    /\ pc_rsync[w] = "L209"
    /\ UNCHANGED output
    /\ IF jobs_pool[JobOf(w)].retry > 0
         THEN Goto(w, "L210")
         ELSE Goto(w, "L214")
    /\ UNCHANGED <<jobs_pool, workers_pool, i_rsync, e_returncode,
                   rsync_frame, history>>

\* Line 210: job['retry'] -= 1.
W210(w) ==
    /\ pc_rsync[w] = "L210"
    /\ UNCHANGED output
    /\ jobs_pool' = [jobs_pool EXCEPT ![JobOf(w)].retry = @ - 1]
    /\ Goto(w, "L211")
    /\ UNCHANGED <<workers_pool, i_rsync, e_returncode, rsync_frame,
                   history>>

\* W211 with the job handed back on a retry: job['worker'] = None.
W211_unassigns(w) ==
    /\ pc_rsync[w] = "L211"
    /\ UNCHANGED output
    /\ jobs_pool' = [jobs_pool EXCEPT ![JobOf(w)].status = "pending",
                                      ![JobOf(w)].worker = None]
    /\ recycled' = IF probe /\ jobs_pool[JobOf(w)].status = "broken"
                      THEN [recycled EXCEPT ![JobOf(w)] = @ + 1]
                      ELSE recycled
    /\ Goto(w, "L215")
    /\ UNCHANGED <<workers_pool, i_rsync, e_returncode, rsync_frame,
                   running, invoked, exits, logs>>

\* Line 211: job['status'] = 'pending'.
W211(w) ==
    /\ pc_rsync[w] = "L211"
    /\ UNCHANGED output
    /\ SetStatus(JobOf(w), "pending")
    /\ recycled' = IF probe /\ jobs_pool[JobOf(w)].status = "broken"
                      THEN [recycled EXCEPT ![JobOf(w)] = @ + 1]
                      ELSE recycled
    /\ Goto(w, "L215")
    /\ UNCHANGED <<workers_pool, i_rsync, e_returncode, rsync_frame,
                   running, invoked, exits, logs>>

\* Lines 213-214: the message, job['status'] = 'failed'.
W214(w) ==
    /\ pc_rsync[w] = "L214"
    /\ Say(w, 1)
    /\ SetStatus(JobOf(w), "failed")
    /\ Goto(w, "L215")
    /\ UNCHANGED <<workers_pool, i_rsync, e_returncode, rsync_frame,
                   history>>

\* Line 215: worker['status'] = 'idle', then on to the next job.
W215(w) ==
    /\ pc_rsync[w] = "L215"
    /\ UNCHANGED output
    /\ SetWorkerStatus(w, "idle")
    /\ NextJob(w)
    /\ UNCHANGED <<jobs_pool, e_returncode, rsync_frame, history>>

\* Lines 216-217: elif job['status'] == 'failed': only a message.
W216(w) ==
    /\ pc_rsync[w] = "L216"
    /\ IF jobs_pool[JobOf(w)].status = "failed"
         THEN NextJob(w) /\ Say(w, 1)
         ELSE Goto(w, "L218") /\ UNCHANGED <<i_rsync, output>>
    /\ UNCHANGED <<jobs_pool, workers_pool, e_returncode, rsync_frame,
                   history>>

\* Lines 218-221: elif job['status'] == 'completed': only a message;
\* else raise StandardError, which ends the worker thread.
W218(w) ==
    /\ pc_rsync[w] = "L218"
    /\ IF jobs_pool[JobOf(w)].status = "completed"
         THEN NextJob(w) /\ Say(w, 1)
         ELSE Goto(w, "raised_L221") /\ UNCHANGED <<i_rsync, output>>
    /\ UNCHANGED <<jobs_pool, workers_pool, e_returncode, rsync_frame,
                   history>>

\* Lines 224-225: the loop has ended; write the worker's log and return.
W224(w) ==
    /\ pc_rsync[w] = "L224"
    /\ UNCHANGED output
    /\ Goto(w, "done")
    /\ UNCHANGED <<jobs_pool, workers_pool, i_rsync, e_returncode,
                   rsync_frame, history>>

rsync(w) ==
    \/ W172(w) \/ W175(w) \/ W177(w) \/ W179(w)
    \/ W181_call(w) \/ W181_return(w) \/ W183(w) \/ W184(w)
    \/ W190(w) \/ W191(w) \/ W193(w) \/ W198(w) \/ W199(w) \/ W201(w)
    \/ W202(w) \/ W205(w) \/ W208(w) \/ W209(w) \/ W210(w)
    \/ W211(w) \/ W214(w) \/ W215(w) \/ W216(w) \/ W218(w)
    \/ W224(w)

\* ---------------------------------------------------------- dispatch()
dispatch_frame == <<params, workers_pool, dispatch_on, display_on,
                    rsync_vars, pc_display, main_vars, history>>

\* Lines 165-166, 159: sleep, i += 1, back to the loop test.
NextDispatch ==
    /\ pc_dispatch' = "L159"
    /\ i_dispatch' = (i_dispatch + 1) % njobs
    /\ k_dispatch' = 0

\* Line 162: the for loop takes the next worker, or is exhausted.
NextWorker ==
    IF k_dispatch + 1 < nthreads
      THEN /\ pc_dispatch' = "L163"
           /\ k_dispatch' = k_dispatch + 1
           /\ UNCHANGED i_dispatch
      ELSE NextDispatch

\* Lines 159-161: while dispatch_on, and in the loop
\* if job['status'] == 'pending' and job['worker'] is None.
D159 ==
    /\ pc_dispatch = "L159"
    /\ IF dispatch_on
         THEN IF njobs = 0
                THEN /\ pc_dispatch' = "raised_L160"
                     /\ UNCHANGED <<i_dispatch, k_dispatch>>
                ELSE IF /\ jobs_pool[i_dispatch].status = "pending"
                        /\ jobs_pool[i_dispatch].worker = None
                       THEN /\ pc_dispatch' = "L163"
                            /\ UNCHANGED <<i_dispatch, k_dispatch>>
                       ELSE NextDispatch
         ELSE /\ pc_dispatch' = "done"
              /\ UNCHANGED <<i_dispatch, k_dispatch>>
    /\ UNCHANGED <<jobs_pool, dispatch_frame>>

\* Line 163: if worker['status'] == 'idle', for the worker under the
\* cursor of the for loop.
D163 ==
    /\ pc_dispatch = "L163"
    /\ IF workers_pool[k_dispatch].status = "idle"
         THEN /\ pc_dispatch' = "L164"
              /\ UNCHANGED <<i_dispatch, k_dispatch>>
         ELSE NextWorker
    /\ UNCHANGED <<jobs_pool, dispatch_frame>>

\* D164 with the dispatcher marking the worker 'working' as it assigns.
D164_marks_worker ==
    /\ pc_dispatch = "L164"
    /\ jobs_pool' = [jobs_pool EXCEPT ![i_dispatch].worker = k_dispatch]
    /\ SetWorkerStatus(k_dispatch, "working")
    /\ NextWorker
    /\ UNCHANGED <<params, dispatch_on, display_on, rsync_vars, pc_display,
                   main_vars, history>>

\* Line 164: job['worker'] = worker['id']; the for loop goes on (the
\* loop has no break).
D164 ==
    /\ pc_dispatch = "L164"
    /\ jobs_pool' = [jobs_pool EXCEPT ![i_dispatch].worker = k_dispatch]
    /\ NextWorker
    /\ UNCHANGED dispatch_frame

dispatch == D159 \/ D163 \/ D164

\* ----------------------------------------------------------- display()
\* Lines 118-151: while display_on, count the jobs and workers by status
\* and print; nothing is written to jobs_pool or workers_pool. When
\* display_on is false the thread returns.
\* (display_tidies: a reporter that resets the workers it has counted.)
display_tidies ==
    /\ pc_display = "L118"
    /\ pc_display' = IF display_on THEN "L118" ELSE "done"
    /\ workers_pool' = [w \in Workers |-> NewWorker]
    /\ UNCHANGED <<params, jobs_pool, dispatch_on, display_on, rsync_vars,
                   dispatch_vars, main_vars, history>>

display ==
    /\ pc_display = "L118"
    /\ pc_display' = IF display_on THEN "L118" ELSE "done"
    /\ UNCHANGED <<params, shared, rsync_vars, dispatch_vars, main_vars,
                   history>>

\* ------------------------------------------------------ the main thread
main_frame == <<params, jobs_pool, rsync_vars, dispatch_vars, pc_display,
                history>>

Terminal == {"failed", "completed"}

\* Lines 238-243: the wait loop; one pass looks at one job.
M238 ==
    /\ pc_main = "L238"
    /\ IF Cardinality(finished) < njobs
         THEN /\ finished' = IF jobs_pool[i_main].status \in Terminal
                               THEN finished \cup {i_main}
                               ELSE finished
              /\ i_main' = (i_main + 1) % njobs
              /\ UNCHANGED pc_main
         ELSE /\ pc_main' = "L244"
              /\ i_main' = 0
              /\ UNCHANGED finished
    /\ UNCHANGED <<workers_pool, dispatch_on, display_on, main_frame>>

\* Line 244: display_on = False.
M244 ==
    /\ pc_main = "L244"
    /\ display_on' = FALSE
    /\ pc_main' = "L245"
    /\ UNCHANGED <<workers_pool, dispatch_on, i_main, finished, main_frame>>

\* Line 245: displayer.join().
M245 ==
    /\ pc_main = "L245"
    /\ pc_display = "done"
    /\ pc_main' = "L246"
    /\ UNCHANGED <<shared, i_main, finished, main_frame>>

\* Line 246: dispatch_on = False.
M246 ==
    /\ pc_main = "L246"
    /\ dispatch_on' = FALSE
    /\ pc_main' = "L247"
    /\ UNCHANGED <<workers_pool, display_on, i_main, finished, main_frame>>

\* Line 247: dispatcher.join(), then the for loop of line 248 starts.
M247 ==
    /\ pc_main = "L247"
    /\ pc_dispatch \in {"done", "raised_L160"}
    /\ pc_main' = "L249"
    /\ UNCHANGED <<shared, i_main, finished, main_frame>>

\* Line 249: workers_pool[i]['status'] = 'dismissed'.
M249 ==
    /\ pc_main = "L249"
    /\ SetWorkerStatus(i_main, "dismissed")
    /\ pc_main' = "L250"
    /\ UNCHANGED <<dispatch_on, display_on, i_main, finished, main_frame>>

\* Where a worker thread that has ended is: rsync() returned, or an
\* exception left it at line 173, at line 181 or at line 221.
Ended == {"done", "raised_L173", "raised_L181", "raised_L221"}

\* Line 250: workers[i].join() returns once the thread has ended, by
\* returning or by an exception; then the next worker, or line 251.
M250 ==
    /\ pc_main = "L250"
    /\ pc_rsync[i_main] \in Ended
    /\ IF i_main + 1 < nthreads
         THEN pc_main' = "L249" /\ i_main' = i_main + 1
         ELSE pc_main' = "L251" /\ i_main' = 0
    /\ UNCHANGED <<shared, finished, main_frame>>

\* Line 251: print Terminated; the process ends.
M251 ==
    /\ pc_main = "L251"
    /\ pc_main' = "end"
    /\ UNCHANGED <<shared, i_main, finished, main_frame>>

main == M238 \/ M244 \/ M245 \/ M246 \/ M247 \/ M249 \/ M250 \/ M251

\* ------------------------------------------------------------ start-up
\* What the module does before its threads run: lines 70-109 and 227-235.
\* The threads are "unstarted" until their start() call.
start_frame == <<stub, probe, audit, manifest, lines, nthreads, retry, dispatch_on,
                 display_on, i_rsync, e_returncode, output, i_dispatch,
                 k_dispatch, finished, running, logs>>

\* The entries a manifest of the model is made of: a directory, a file in
\* it and a directory below it; and the manifests of up to MaxJobs
\* entries, the empty manifest among them.
Entries ==
    {<<Component("a", "")>>,
     <<Component("a", ""), Component("b", ".FITS")>>,
     <<Component("a", ""), Component("c", "")>>}

Manifests == UNION {[1 .. n -> Entries] : n \in 0 .. MaxJobs}

\* The characters of a manifest file of the model, and the files of up to
\* MaxText characters.
Alphabet == {"a", "/", "\n"}

Texts == UNION {[1 .. n -> Alphabet] : n \in 0 .. MaxText}

\* The length of the first line of a non-empty text: up to and including
\* its first newline, or all of it if it has none.
RECURSIVE FirstLine(_, _)
FirstLine(t, k) ==
    IF k = Len(t) \/ t[k] = "\n" THEN k ELSE FirstLine(t, k + 1)

\* Line 74, "for line in f": the lines of the file, each with the newline
\* that ends it; only the last line can be without one.
RECURSIVE readlines(_)
readlines(t) ==
    IF t = <<>> THEN <<>>
    ELSE LET k == FirstLine(t, 1) IN
           <<SubSeq(t, 1, k)>> \o readlines(SubSeq(t, k + 1, Len(t)))

\* Line 74, line[:-1]: the line without its last character.
DropLast(line) == SubSeq(line, 1, Len(line) - 1)

\* Lines 73-74: fetch_list = [line[:-1] for line in f], on the characters
\* of the file.
S74 ==
    /\ pc_main = "L70"
    /\ lines' = [k \in 1 .. Len(readlines(manifest)) |->
                   DropLast(readlines(manifest)[k])]
    /\ pc_main' = "L75"
    /\ UNCHANGED <<stub, probe, audit, manifest, fetch_list, disk, njobs,
                   nthreads, retry, shared, rsync_vars, dispatch_vars,
                   pc_display, i_main, finished, history>>

\* Lines 70-78: the arguments and the manifest are read; if anything in
\* the try block raises, the usage text is printed and sys.exit() called.
S70 ==
    /\ pc_main = "L70"
    /\ \/ /\ pc_main' = "exit_L78"
          /\ UNCHANGED fetch_list
       \/ /\ \E m \in Manifests : fetch_list' = m
          /\ pc_main' = "L80"
    /\ UNCHANGED <<start_frame, disk, njobs, jobs_pool, workers_pool,
                   pc_rsync, pc_dispatch, pc_display, i_main, invoked,
                   recycled, exits>>

\* Lines 80-83: rsync_dest is created with os.mkdir if it is not a
\* directory; the OSError of a refused mkdir is not caught.
S80 ==
    /\ pc_main = "L80"
    /\ IF <<>> \in Dirs
         THEN pc_main' = "L87" /\ UNCHANGED disk
         ELSE \/ /\ <<>> \notin DOMAIN disk
                 /\ disk' = WithDirs(disk, {<<>>})
                 /\ pc_main' = "L87"
              \/ /\ pc_main' = "raised_L82"
                 /\ UNCHANGED disk
    /\ UNCHANGED <<start_frame, fetch_list, njobs, jobs_pool, workers_pool,
                   pc_rsync, pc_dispatch, pc_display, i_main, invoked,
                   recycled, exits>>

\* Lines 86-100: the job of entry i: its directory is made with mkdir_p,
\* whose exception ends the program, and the job is appended.
S87 ==
    /\ pc_main = "L87"
    /\ i_main < Len(fetch_list)
    /\ LET p == DestDir(fetch_list[i_main + 1]) IN
         \E r \in makedirs(p) :
            /\ disk' = r.disk
            /\ IF mkdir_p_raises(p, r)
                 THEN /\ pc_main' = "raised_L68"
                      /\ UNCHANGED <<jobs_pool, i_main>>
                 ELSE /\ jobs_pool' = [j \in 0 .. i_main |->
                                         IF j < i_main THEN jobs_pool[j]
                                           ELSE NewJob(fetch_list[i_main + 1])]
                      /\ i_main' = i_main + 1
                      /\ UNCHANGED pc_main
    /\ UNCHANGED <<start_frame, fetch_list, njobs, workers_pool, pc_rsync,
                   pc_dispatch, pc_display, invoked, recycled, exits>>

\* Lines 101-109: njobs = len(jobs_pool), and the workers are built.
S101 ==
    /\ pc_main = "L87"
    /\ i_main = Len(fetch_list)
    /\ njobs' = i_main
    /\ workers_pool' = [w \in Workers |-> NewWorker]
    /\ invoked' = [j \in 0 .. (i_main - 1) |-> 0]
    /\ recycled' = [j \in 0 .. (i_main - 1) |-> 0]
    /\ exits' = [j \in 0 .. (i_main - 1) |-> NoExits]
    /\ pc_main' = "L228"
    /\ i_main' = 0
    /\ UNCHANGED <<start_frame, fetch_list, disk, jobs_pool, pc_rsync,
                   pc_dispatch, pc_display>>

\* displayer.start() moved above the start-up checks.
S228_early ==
    /\ pc_display = "unstarted"
    /\ pc_display' = "L118"
    /\ UNCHANGED <<start_frame, fetch_list, disk, njobs, jobs_pool,
                   workers_pool, pc_rsync, pc_dispatch, pc_main, i_main,
                   invoked, recycled, exits>>

\* Lines 227-228: displayer.start().
S228 ==
    /\ pc_main = "L228"
    /\ pc_display' = "L118"
    /\ pc_main' = "L230"
    /\ UNCHANGED <<start_frame, fetch_list, disk, njobs, jobs_pool,
                   workers_pool, pc_rsync, pc_dispatch, i_main, invoked,
                   recycled, exits>>

\* Lines 229-230: dispatcher.start().
S230 ==
    /\ pc_main = "L230"
    /\ pc_dispatch' = "L159"
    /\ pc_main' = "L232"
    /\ UNCHANGED <<start_frame, fetch_list, disk, njobs, jobs_pool,
                   workers_pool, pc_rsync, pc_display, i_main, invoked,
                   recycled, exits>>

\* Lines 232-237: the worker threads are started one by one; then the
\* main thread enters its wait loop.
S232 ==
    /\ pc_main = "L232"
    /\ IF i_main < nthreads
         THEN /\ pc_rsync' = [pc_rsync EXCEPT ![i_main] = "L172"]
              /\ i_main' = i_main + 1
              /\ UNCHANGED pc_main
         ELSE /\ pc_main' = "L238"
              /\ i_main' = 0
              /\ UNCHANGED pc_rsync
    /\ UNCHANGED <<start_frame, fetch_list, disk, njobs, jobs_pool,
                   workers_pool, pc_dispatch, pc_display, invoked, recycled,
                   exits>>

startup == S70 \/ S80 \/ S87 \/ S101 \/ S228 \/ S230 \/ S232

\* The exit status of the process once the main thread has stopped: 0
\* after sys.exit() without an argument (line 78) and after the last
\* statement (line 251), 1 after an exception nobody caught; None while
\* the main thread runs.
ExitStatus ==
    CASE pc_main = "exit_L78" -> 0
      [] pc_main \in {"raised_L82", "raised_L68"} -> 1
      [] pc_main = "end" -> 0
      [] OTHER -> None

\* ------------------------------------------------------ specifications
\* Any run of up to MaxJobs jobs and MaxThreads workers, with any
\* behaviour of the transfer command.
Init ==
    \E n \in 1 .. MaxJobs, t \in 1 .. MaxThreads :
        InitWith("any", FALSE, n, t, MaxRetry)

Next == display \/ dispatch \/ main \/ (\E w \in Workers : rsync(w))

Spec == Init /\ [][Next]_vars

\* Every thread that can take a step eventually takes one: the threads
\* are operating-system threads, and every blocking call in them (sleep,
\* the transfer command) returns.
Fairness ==
    /\ WF_vars(display)
    /\ WF_vars(dispatch)
    /\ WF_vars(main)
    /\ \A w \in 0 .. MaxThreads : WF_vars(w \in Workers /\ rsync(w))

\* Runs whose transfer command always exits with a code >= 20, with the
\* history counters kept, under fair scheduling.
InitRetry ==
    \E n \in 1 .. MaxJobs, t \in 1 .. MaxThreads :
        InitWith("retry", TRUE, n, t, MaxRetry + 1)

FairRetry == InitRetry /\ [][Next]_vars /\ Fairness

\* Runs whose transfer command always exits 0, under fair scheduling.
InitZero ==
    \E n \in 1 .. MaxJobs, t \in 1 .. MaxThreads :
        InitWith("zero", FALSE, n, t, MaxRetry)

FairZero == InitZero /\ [][Next]_vars /\ Fairness

\* Runs of the four-job manifest whose first invocations exit 0, 13, 23
\* and 0, by one worker, with the exit codes and the log files kept, under
\* fair scheduling.
InitMixed == InitRun("mixed", TRUE, TRUE, Len(MixedCodes), 1, MaxRetry)

FairMixed == InitMixed /\ [][Next]_vars /\ Fairness

\* Runs of one job whose command may exit with any code, with the exit
\* codes and the log files kept.
InitCodes ==
    \E t \in 1 .. MaxThreads :
        InitRun("codes", TRUE, TRUE, 1, t, MaxRetry)

SpecCodes == InitCodes /\ [][Next]_vars

\* Runs in which the command of the last job never returns, next to the
\* runs in which every command exits 0, under fair scheduling of every
\* thread that is not waiting for a command that never returns.
InitBlock ==
    \E s \in {"block", "zero"}, n \in 1 .. MaxJobs, t \in 1 .. MaxThreads :
        InitWith(s, FALSE, n, t, MaxRetry)

FairBlock == InitBlock /\ [][Next]_vars /\ Fairness

\* The program from its first statement, with a command that always
\* exits 0: rsync_dest is absent, or empty, or holds the directory or a
\* file named a.
\* The state before line 70, with the manifest file's content m.
StartWith(m) ==
    /\ stub = "zero"
    /\ probe = FALSE
    /\ audit = FALSE
    /\ manifest = m
    /\ lines = <<>>
    /\ fetch_list = <<>>
    /\ disk \in {<<>>,
                 (<<>> :> "dir"),
                 (<<>> :> "dir") @@ (SomeEntry :> "dir"),
                 (<<>> :> "dir") @@ (SomeEntry :> "file")}
    /\ njobs = 0
    /\ nthreads \in 1 .. MaxThreads
    /\ retry = MaxRetry
    /\ jobs_pool = <<>>
    /\ workers_pool = <<>>
    /\ dispatch_on = TRUE
    /\ display_on = TRUE
    /\ pc_rsync = [w \in Workers |-> "unstarted"]
    /\ i_rsync = [w \in Workers |-> 0]
    /\ e_returncode = [w \in Workers |-> None]
    /\ output = [w \in Workers |-> 0]
    /\ pc_dispatch = "unstarted"
    /\ i_dispatch = 0
    /\ k_dispatch = 0
    /\ pc_display = "unstarted"
    /\ pc_main = "L70"
    /\ i_main = 0
    /\ finished = {}
    /\ running = {}
    /\ invoked = <<>>
    /\ recycled = <<>>
    /\ exits = <<>>
    /\ logs = <<>>

InitStart == StartWith(<<>>)

NextStart == startup \/ Next

SpecStart == InitStart /\ [][NextStart]_vars

\* The manifest read of line 74 on every file of up to MaxText characters.
InitParse == \E m \in Texts : StartWith(m)

NextParse == S74

SpecParse == InitParse /\ [][NextParse]_vars

\* ------------------------------------------------------------ claims
\* Worker w is inside an attempt on job j: it has set the job 'syncing'
\* (line 179) and has not yet written the attempt's outcome to the job's
\* status (lines 183, 193, 198).
InAttempt(w, j) ==
    /\ JobOf(w) = j
    /\ pc_rsync[w] \in {"L181", "L181_wait", "L183", "L190", "L191",
                        "L193", "L198"}

\* C1: no job is executed by two workers at the same time: for every job
\* at most one worker is inside an attempt on it.
C1_NoDoubleExecution ==
    \A j \in Jobs : Cardinality({w \in Workers : InAttempt(w, j)}) <= 1

\* C2: no worker executes more than one job at a time: every worker has at
\* most one transfer command in flight.
C2_OneCommandPerWorker ==
    \A w \in Workers : Cardinality({j \in Jobs : <<w, j>> \in running}) <= 1

\* C2's case: the dispatcher has assigned two jobs to the same worker, the
\* worker has the command of one in flight and the other is still pending.
C2_Witness ==
    \E w \in Workers : \E j, k \in Jobs :
        /\ j # k
        /\ jobs_pool[j].worker = w
        /\ jobs_pool[k].worker = w
        /\ <<w, j>> \in running
        /\ jobs_pool[k].status = "pending"

\* C3: terminal monotonicity: no step changes the status of a job that is
\* 'completed' or 'failed'.
C3_TerminalMonotone ==
    [][\A j \in Jobs :
         jobs_pool[j].status \in Terminal
            => jobs_pool'[j].status = jobs_pool[j].status]_vars

\* C5: the outcome an attempt writes is a function of its own exit code:
\* a worker writes 'failed' (line 193) only for an exit code below 20 and
\* 'broken' (line 198) only for an exit code of 20 or more.
C5_OutcomeByExitCode ==
    \A w \in Workers :
        /\ pc_rsync[w] = "L193" => e_returncode[w] < 20
        /\ pc_rsync[w] = "L198" => e_returncode[w] >= 20

\* C8: a transfer command that cannot be invoked never ends the worker
\* thread that attempted it.
C8_WorkerSurvives ==
    \A w \in Workers : pc_rsync[w] # "raised_L181"

\* The changes of a job's status the job model allows.
Allowed ==
    {<<"pending", "syncing">>, <<"syncing", "completed">>,
     <<"syncing", "failed">>, <<"syncing", "broken">>,
     <<"broken", "pending">>, <<"broken", "failed">>}

\* C9: every change of a job's status is an allowed one, and broken ->
\* pending is taken only with a retry left (the budget tested at line 209,
\* before line 210 takes one off).
C9_LegalTransitions ==
    [][\A j \in Jobs :
         jobs_pool'[j].status # jobs_pool[j].status
            => /\ <<jobs_pool[j].status, jobs_pool'[j].status>> \in Allowed
               /\ jobs_pool'[j].status = "pending"
                    => jobs_pool[j].retry + 1 > 0]_vars

\* C10: a job that is 'syncing' is assigned to the worker that is inside
\* the attempt on it.
C10_SyncingHasExecutor ==
    \A j \in Jobs :
        jobs_pool[j].status = "syncing"
            => /\ jobs_pool[j].worker \in Workers
               /\ InAttempt(jobs_pool[j].worker, j)

\* C4: a job whose command always exits with a code >= 20 is never
\* 'completed', and when it is 'failed' it has been recycled from 'broken'
\* to 'pending' exactly retry times.
C4_RetryBound ==
    \A j \in Jobs :
        /\ jobs_pool[j].status # "completed"
        /\ jobs_pool[j].status = "failed" => recycled[j] = retry

\* C6: with a command that always exits 0, every fairly scheduled run
\* reaches the main thread's last step with every job 'completed'.
C6_ZeroTerminates ==
    <>(/\ pc_main = "end"
       /\ \A j \in Jobs : jobs_pool[j].status = "completed")

\* C7: when every invocation returns with an exit code, every job
\* eventually reaches 'completed' or 'failed'.
C7_EveryJobTerminal ==
    \A j \in 0 .. (MaxJobs - 1) :
        <>(j \in Jobs => jobs_pool[j].status \in Terminal)

\* C11: in no reachable state do two different jobs both have status
\* 'syncing' with the same assigned worker.
C11_SyncingWorkersDistinct ==
    \A j, k \in Jobs :
        (/\ j # k
         /\ jobs_pool[j].status = "syncing"
         /\ jobs_pool[k].status = "syncing")
        => jobs_pool[j].worker # jobs_pool[k].worker

\* C12: the controller starts the shutdown (clears display_on or
\* dispatch_on, marks a worker 'dismissed') only in states where every
\* job is 'failed' or 'completed', so no worker is dismissed while a
\* transfer command is in flight.
C12_ShutdownAfterAllTerminal ==
    [][(\/ display_on /\ ~display_on'
        \/ dispatch_on /\ ~dispatch_on'
        \/ \E w \in Workers :
              /\ workers_pool[w].status # "dismissed"
              /\ workers_pool'[w].status = "dismissed")
       => /\ \A j \in Jobs : jobs_pool[j].status \in Terminal
          /\ running = {}]_vars

\* C13: a worker becomes 'dismissed' only by the controller's shutdown
\* (line 249), and a 'dismissed' worker never becomes 'idle' or 'working'
\* again.
C13_DismissedIsFinal ==
    [][\A w \in Workers :
         /\ (/\ workers_pool[w].status # "dismissed"
             /\ workers_pool'[w].status = "dismissed")
            => pc_main = "L249" /\ i_main = w
         /\ workers_pool[w].status = "dismissed"
            => workers_pool'[w].status = "dismissed"]_vars

\* C14: every worker the controller marks 'dismissed' eventually leaves
\* its scan loop, and the shutdown, once begun, reaches its end.
C14_ShutdownCompletes ==
    /\ \A w \in 0 .. (MaxThreads - 1) :
         (w \in Workers /\ pc_main = "L250" /\ i_main = w)
            ~> (w \in Workers /\ pc_rsync[w] \in Ended)
    /\ (pc_main = "L245") ~> (pc_main = "end")

\* C15: with the four-job manifest whose first invocations exit 0, 13, 23
\* and 0, every run terminates with exactly 3 jobs 'completed' and 1
\* 'failed'; the job that received 13 was invoked exactly once and has no
\* fetch_broken log, the job that received 23 was invoked exactly twice
\* and ended 'completed'.
MixedTally ==
    /\ Cardinality({j \in Jobs : jobs_pool[j].status = "completed"}) = 3
    /\ Cardinality({j \in Jobs : jobs_pool[j].status = "failed"}) = 1
    /\ \A j \in Jobs :
         /\ MixedCodes[j + 1] = 13
            => /\ invoked[j] = 1
               /\ \A name \in DOMAIN logs :
                    ~(name.kind = "fetch_broken" /\ name.job = j)
         /\ MixedCodes[j + 1] = 23
            => invoked[j] = 2 /\ jobs_pool[j].status = "completed"

C15_MixedRunTerminates == <>(pc_main = "end" /\ MixedTally)

\* C16: the log of the first transient failure (exit code >= 20) of job j
\* is fetch_broken.job_j.try_1.log and each later transient failure uses
\* the next attempt number, so every transient failure has its own log
\* file and none is written over.
C16_BrokenLogPerFailure ==
    \A name \in DOMAIN logs :
        name.kind = "fetch_broken"
        => /\ name.try >= 1
           /\ \A n \in 1 .. name.try : BrokenLog(name.job, n) \in DOMAIN logs
           /\ logs[name] = 1

\* C17: when the run has terminated, the per-job logs match the jobs'
\* histories: a job has a fetch_completed log iff it ended 'completed', a
\* fetch_failed log iff one of its attempts exited with a non-zero code
\* below 20, and one fetch_broken log per attempt that exited with a code
\* of 20 or more (so a run whose command always exits 0 leaves one
\* fetch_completed log per job and no other job log).
BrokenLogs(j) ==
    {name \in DOMAIN logs : name.kind = "fetch_broken" /\ name.job = j}

C17_LogsMatchHistory ==
    pc_main = "end"
    => \A j \in Jobs :
         /\ CompletedLog(j) \in DOMAIN logs
            <=> jobs_pool[j].status = "completed"
         /\ FailedLog(j) \in DOMAIN logs <=> exits[j].fatal > 0
         /\ Cardinality(BrokenLogs(j)) = exits[j].transient

\* C18: if the manifest cannot be read or a destination directory cannot
\* be created, no partial run begins: no dispatcher, worker or reporter
\* thread is started and no transfer command is invoked.
StartFailed == pc_main \in {"exit_L78", "raised_L82", "raised_L68"}

C18_NoPartialRun ==
    StartFailed
    => /\ pc_display = "unstarted"
       /\ pc_dispatch = "unstarted"
       /\ \A w \in Workers : pc_rsync[w] = "unstarted"
       /\ running = {}
       /\ \A j \in DOMAIN jobs_pool : jobs_pool[j].status = "pending"

\* A later entry's directory is refused after an earlier job was built.
C18_Witness ==
    /\ pc_main = "raised_L68"
    /\ DOMAIN jobs_pool # {}
    /\ pc_display = "unstarted"

\* C19: the exit status reflects the start-up preconditions and nothing
\* else: a failure status when the manifest cannot be read or the
\* destination cannot be created, a success status for every run that
\* started, however its jobs ended.
C19_ExitStatusTellsStartUp ==
    /\ StartFailed => ExitStatus \notin {None, 0}
    /\ pc_main = "end" => ExitStatus = 0

\* C20: creating a destination directory that already exists never raises
\* and leaves the filesystem unchanged: the job of an entry whose
\* directory is already there (shared with an earlier entry, or the same
\* entry again) is built, and starts 'pending'.
C20_ExistingDirectoryIsFine ==
    [][(/\ pc_main = "L87"
        /\ i_main < Len(fetch_list)
        /\ DestDir(fetch_list[i_main + 1]) \in Dirs)
       => /\ pc_main' = "L87"
          /\ disk' = disk
          /\ DOMAIN jobs_pool' = 0 .. i_main
          /\ \A j \in 0 .. i_main : jobs_pool'[j].status = "pending"]_vars

\* Two jobs have been built for two entries with the same directory, which
\* the first of them created.
C20_Witness ==
    /\ pc_main = "L87"
    /\ i_main = 2
    /\ DestDir(fetch_list[1]) = DestDir(fetch_list[2])
    /\ DOMAIN jobs_pool = {0, 1}
    /\ \A j \in DOMAIN jobs_pool : jobs_pool[j].status = "pending"

\* C21: in every reachable state the number of transfer commands in
\* flight is at most the number of workers, and the number of workers and
\* the number of jobs never change during the run.
C21_BoundedConcurrency ==
    /\ [](Cardinality(running) <= nthreads)
    /\ [][/\ nthreads' = nthreads
          /\ njobs' = njobs
          /\ DOMAIN workers_pool' = DOMAIN workers_pool
          /\ DOMAIN jobs_pool' = DOMAIN jobs_pool]_vars

\* Every worker of a two-worker pool has a command in flight.
C21_Witness ==
    /\ nthreads = MaxThreads
    /\ Cardinality(running) = nthreads
    /\ \A w \in Workers : pc_rsync[w] = "L181_wait"

\* C22: a transfer command that never returns blocks only the worker that
\* invoked it: the dispatcher and the reporter can always take a step, and
\* every job that stays assigned to a worker that is never blocked, and
\* is not the job whose command never returns, eventually reaches a
\* terminal status.
Blocked(w) ==
    pc_rsync[w] = "L181_wait" /\ Outcomes(JobOf(w)) = {}

C22_BlockingIsLocal ==
    /\ []((\E w \in Workers : Blocked(w))
          => pc_dispatch # "done" /\ pc_display # "done")
    /\ \A w \in 0 .. (MaxThreads - 1), j \in 0 .. (MaxJobs - 1) :
         (/\ <>(\E v \in Workers : Blocked(v))
          /\ <>[](w \in Workers /\ j \in Jobs /\ jobs_pool[j].worker = w)
          /\ []~(w \in Workers /\ Blocked(w))
          /\ []~(\E v \in Workers : Blocked(v) /\ JobOf(v) = j))
         => <>(j \in Jobs /\ jobs_pool[j].status \in Terminal)

\* C23: the dispatcher assigns a job only while the job is 'pending' with
\* no assigned worker, to the first idle worker in pool order, and makes
\* no other assignment to the job in that visit.
C23_FirstIdleWorkerOnly ==
    [][\A j \in Jobs :
         jobs_pool'[j].worker # jobs_pool[j].worker
         => /\ jobs_pool[j].worker = None
            /\ jobs_pool'[j].worker \in Workers
            /\ \A v \in Workers :
                 v < jobs_pool'[j].worker => workers_pool[v].status # "idle"]_vars

\* C24: when a worker recycles a 'broken' job back to 'pending', it clears
\* the job's assigned worker.
C24_RecycleClearsWorker ==
    [][\A j \in Jobs :
         (jobs_pool[j].status = "broken" /\ jobs_pool'[j].status = "pending")
         => jobs_pool'[j].worker = None]_vars

\* C25: the conflict branch (lines 202-203) is unreachable: no worker's
\* scan is at a job it found assigned to itself whose status is 'syncing'.
C25_NoConflictBranch ==
    \A w \in Workers :
        ~(pc_rsync[w] = "L202" /\ jobs_pool[JobOf(w)].status = "syncing")

\* C26: a job's retries left start at the retry budget, go down by exactly
\* 1 with each broken -> pending recycling (lines 210-211) and by no other
\* step, and stay between 0 and the budget.
Recycling(j) == {w \in Workers : pc_rsync[w] = "L211" /\ JobOf(w) = j}

C26_RetriesLeft ==
    \A j \in Jobs :
        /\ 0 <= jobs_pool[j].retry
        /\ jobs_pool[j].retry <= retry
        /\ retry - jobs_pool[j].retry = recycled[j] + Cardinality(Recycling(j))

\* C27: a dispatcher step writes nothing but the assigned worker of a job
\* (no job's status, retries left or exit code, no worker's status), and a
\* worker's status becomes 'working' only by that worker's own step.
C27_DispatcherFrame ==
    [][/\ dispatch
          => /\ workers_pool' = workers_pool
             /\ \A j \in Jobs :
                  /\ jobs_pool'[j].status = jobs_pool[j].status
                  /\ jobs_pool'[j].retry = jobs_pool[j].retry
                  /\ jobs_pool'[j].return = jobs_pool[j].return
       /\ \A w \in Workers :
            (/\ workers_pool[w].status # "working"
             /\ workers_pool'[w].status = "working")
            => /\ pc_rsync[w] \in {"L177", "L208"}
               /\ pc_rsync'[w] # pc_rsync[w]]_vars

\* The dispatcher has assigned a job to a worker, which is still idle and
\* has not looked at it.
C27_Witness ==
    \E j \in Jobs :
        /\ jobs_pool[j].worker \in Workers
        /\ jobs_pool[j].status = "pending"
        /\ workers_pool[jobs_pool[j].worker].status = "idle"
        /\ pc_rsync[jobs_pool[j].worker] = "L172"
        /\ pc_dispatch = "L159"

\* C28: the progress reporter writes no field of any job or worker and
\* nothing else the other threads read, and it returns when the main
\* thread asks it to, so its presence changes neither the outcome nor the
\* termination of a run.
C28_ReporterIsReadOnly ==
    /\ [][display => UNCHANGED <<params, shared, rsync_vars, dispatch_vars,
                                 main_vars, history>>]_vars
    /\ (pc_main = "L245") ~> (pc_display = "done")

\* The reporter has returned and the main thread's join on it is over.
C28_Witness ==
    /\ pc_display = "done"
    /\ pc_main = "L246"
    /\ \A j \in Jobs : jobs_pool[j].status = "completed"

\* C29: a worker's status is 'working' only while the worker is inside the
\* execute branch (lines 177-201) or the broken-handling branch (lines
\* 208-215); a worker at the top of its scan loop that has not been
\* dismissed is 'idle'.
InBranch ==
    {"L179", "L181", "L181_wait", "L183", "L184", "L190", "L191", "L193",
     "L198", "L199", "L201", "L209", "L210", "L211", "L214", "L215"}

C29_IdleAtLoopTop ==
    \A w \in Workers :
        /\ (pc_rsync[w] = "L172" /\ workers_pool[w].status # "dismissed")
           => workers_pool[w].status = "idle"
        /\ workers_pool[w].status = "working" => pc_rsync[w] \in InBranch

\* C30: a worker's scan step that only looks at a job (the job is not
\* assigned to it, or is 'completed' or 'failed', or is 'syncing' in the
\* conflict branch) leaves every job's status, assigned worker, retries
\* left and exit code and every worker's status unchanged.
Looking == {"L172", "L175", "L202", "L205", "L216", "L218"}

C30_ScanIsReadOnly ==
    [][\A w \in Workers :
         (/\ pc_rsync[w] \in Looking
          /\ <<pc_rsync'[w], i_rsync'[w]>> # <<pc_rsync[w], i_rsync[w]>>)
         => jobs_pool' = jobs_pool /\ workers_pool' = workers_pool]_vars

\* A worker finds a 'syncing' job assigned to it (the conflict case) after
\* another job has been completed.
C30_Witness ==
    \E w \in Workers :
        /\ pc_rsync[w] = "L202"
        /\ jobs_pool[JobOf(w)].worker = w
        /\ jobs_pool[JobOf(w)].status = "syncing"
        /\ \E j \in Jobs : jobs_pool[j].status = "completed"

\* C31: a job's return is None until an attempt on it has finished and is
\* afterwards the exit status of its most recent attempt; in every state a
\* job whose status is 'completed' has return 0 and a job whose status is
\* 'broken' has a return of 20 or more.
C31_ReturnMatchesStatus ==
    \A j \in Jobs :
        /\ jobs_pool[j].status = "completed" => jobs_pool[j].return = 0
        /\ jobs_pool[j].status = "broken" => jobs_pool[j].return >= 20
        /\ jobs_pool[j].return # None => invoked[j] > 0

\* C32: the number of lines a worker holds in worker['output'] is bounded
\* by the number of lines shown for it, and a pass of the worker's scan
\* over a job already 'failed' or 'completed' adds no line.
C32_OutputIsBounded ==
    [][\A w \in Workers :
         /\ output'[w] <= ShownLines
         /\ (pc_rsync[w] \in {"L216", "L218"} /\ pc_rsync'[w] = "L172")
              => output'[w] = output[w]]_vars

\* Line 161: the dispatcher's condition for assigning job j.
Assignable(j) ==
    jobs_pool[j].status = "pending" /\ jobs_pool[j].worker = None

\* C33: no step resets a job's worker to None once it is set, so the
\* dispatcher's condition (line 161) never becomes true again for a job;
\* job['worker'] is written only by the dispatcher's line 164 on the job
\* its scan is at, and a worker is in rsync()'s branches for a job only
\* while the job carries a worker id.
C33_AssignedOnce ==
    [][\A j \in Jobs :
         /\ jobs_pool[j].worker # None => jobs_pool'[j].worker # None
         /\ ~Assignable(j) => ~Assignable(j)'
         /\ jobs_pool'[j].worker # jobs_pool[j].worker
              => /\ pc_dispatch = "L164" /\ i_dispatch = j
                 /\ jobs_pool'[j].worker \in Workers
         /\ \A w \in Workers :
              (pc_rsync'[w] \in {"L177", "L179", "L181", "L181_wait"}
                 /\ i_rsync'[w] = j)
                => jobs_pool'[j].worker \in Workers]_vars

\* A retry in progress: job j was recycled, is assigned and its command
\* runs again.
C33_Witness ==
    \E j \in Jobs, w \in Workers :
        /\ recycled[j] > 0
        /\ jobs_pool[j].worker \in Workers
        /\ pc_rsync[w] = "L181_wait" /\ i_rsync[w] = j
        /\ invoked[j] > 1

\* C34: with an empty manifest no transfer command is invoked, and neither
\* the dispatcher nor a worker is ended by an exception: i % njobs (lines
\* 160 and 173) is never evaluated with njobs = 0.
C34_EmptyManifestIsQuiet ==
    fetch_list = <<>>
      => /\ running = {}
         /\ pc_dispatch # "raised_L160"
         /\ \A w \in Workers : pc_rsync[w] # "raised_L173"

\* The path written on a line of the manifest: the line without the
\* newline that ends it, if it has one.
Written(line) ==
    IF line[Len(line)] = "\n" THEN SubSeq(line, 1, Len(line) - 1) ELSE line

\* C35: once the manifest is read there is one entry per line of the
\* file, in the file's order, and each entry is exactly the path written
\* on its line, whether or not the last line ends with a newline.
C35_EntryPerLine ==
    pc_main = "L75"
      => /\ Len(lines) = Len(readlines(manifest))
         /\ \A k \in 1 .. Len(lines) :
              lines[k] = Written(readlines(manifest)[k])

============================================================================
